---- MODULE Spec2Model ----
(***************************************************************************)
(* Model of src/ssdp/search.rs: the SSDP search functions (search,         *)
(* search_once, search_once_to_device), Options::validate, the conversion  *)
(* of a raw HTTPU response into a Response, and the ResponseCache methods. *)
(*                                                                         *)
(* Strings of the program are TLA+ strings; Option<T> is a record with a   *)
(* field `some`; Result<T, E> is a record with a field `tag`.  A panic     *)
(* (Option::unwrap on None) is the result Panic.                           *)
(***************************************************************************)
EXTENDS Integers, Sequences, FiniteSets, TLC

VARIABLES
    pc,         \* position of the caller inside the current call
    call,       \* the function being called
    opts,       \* the Options passed to the call
    validated,  \* options.validate() has run in this call
    headers,    \* the request headers added to message_builder so far
    sends,      \* transport sends (calls of multicast) made by this call
    raw,        \* raw_responses not yet converted
    responses,  \* the Vec<Response> built by the conversion loop
    parsed,     \* every conversion of this call: raw response and outcome
    result,     \* what the call returned
    cache,      \* a ResponseCache value (receiver of refresh / responses)
    now,        \* the clock, seconds
    network,    \* what a search issued now would get from the transport
    cacheOp     \* the last ResponseCache method called, and when

vars == <<pc, call, opts, validated, headers, sends, raw, responses, parsed,
          result, cache, now, network, cacheOp>>

searchVars == <<pc, call, opts, validated, headers, sends, raw, responses, parsed>>
cacheVars == <<cache, now, network, cacheOp>>

----------------------------------------------------------------------------
\* Bounds of the model.

\* Longest batch of raw responses the transport returns.
MaxBatch == 2
\* Last clock value.
MaxTime == 3
\* Most entries of a ResponseCache value.
MaxCache == 2

----------------------------------------------------------------------------
\* Option and Result values.

None == [some |-> FALSE]
Some(v) == [some |-> TRUE, v |-> v]

Ok(v) == [tag |-> "Ok", val |-> v]
Err(kind) == [tag |-> "Err", err |-> kind]
ErrField(kind, name) == [tag |-> "Err", err |-> kind, field |-> name]
Panic == [tag |-> "Panic"]
NoResult == [tag |-> "None"]

\* SpecVersion, an ordered enumeration V10 < V11 < V20.
V10 == 10
V11 == 11
V20 == 20
SpecVersion == {V10, V11, V20}

\* The bounds of max_wait_time that validate accepts.
MinWaitTime == 1
MaxWaitTime == 120

----------------------------------------------------------------------------
\* SearchTarget and its Display implementation.

SearchTargetAll == [variant |-> "All"]
RootDevices == [variant |-> "RootDevices"]
Device(id) == [variant |-> "Device", a |-> id]
DeviceType(t) == [variant |-> "DeviceType", a |-> t]
ServiceType(t) == [variant |-> "ServiceType", a |-> t]
DomainDeviceType(d, t) == [variant |-> "DomainDeviceType", a |-> d, b |-> t]
DomainServiceType(d, t) == [variant |-> "DomainServiceType", a |-> d, b |-> t]

to_string(t) ==
    CASE t.variant = "All" -> "ssdp::all"
      [] t.variant = "RootDevices" -> "upnp:rootdevice"
      [] t.variant = "Device" -> "uuid:" \o t.a
      [] t.variant = "DeviceType" -> "urn:schemas-upnp-org:device:" \o t.a
      [] t.variant = "ServiceType" -> "urn:schemas-upnp-org:service:" \o t.a
      [] t.variant = "DomainDeviceType" -> "urn:" \o t.a \o ":device:" \o t.b
      [] t.variant = "DomainServiceType" -> "urn:" \o t.a \o ":service:" \o t.b

----------------------------------------------------------------------------
\* Options.

ControlPoint(name, port, uuid) == [friendly_name |-> name, port |-> port, uuid |-> uuid]

Options(v, st, mx, pav, cp) ==
    [spec_version |-> v, search_target |-> st, network_interface |-> None,
     max_wait_time |-> mx, product_and_version |-> pav, control_point |-> cp]

OptionsDefault == Options(V10, RootDevices, 2, None, None)

\* The lazy_static regex of validate, "^$": it matches the empty string only.
RE_is_match(s) == s = ""

\* Options::validate.
validate(o) ==
    IF o.max_wait_time < MinWaitTime \/ o.max_wait_time > MaxWaitTime
    THEN Err("InvalidFieldValue")
    ELSE IF /\ o.spec_version >= V11
            /\ o.product_and_version.some
            /\ ~RE_is_match(o.product_and_version.v)
    THEN Err("InvalidFieldValue")
    ELSE IF o.spec_version >= V20 /\ ~o.control_point.some
    THEN Err("InvalidFieldValue")
    ELSE IF /\ o.spec_version >= V20
            /\ o.control_point.some
            /\ o.control_point.v.friendly_name = ""
    THEN Err("InvalidFieldValue")
    ELSE Ok("unit")

\* The Options values the caller passes.
WaitTimes == {0, 1, 120, 121}
ProductAndVersions == {None, Some(""), Some("Name/Version"), Some("NoSlash")}
ControlPoints ==
    {None, Some(ControlPoint("", None, None))}
    \cup {Some(ControlPoint("cp", p, u)) : p \in {None, Some(1900)},
                                           u \in {None, Some("uuid-1")}}
SearchTargets == {RootDevices, Device("d1")}

OptionsSet ==
    {Options(v, st, mx, pav, cp) :
        v \in SpecVersion, st \in SearchTargets, mx \in WaitTimes,
        pav \in ProductAndVersions, cp \in ControlPoints}

----------------------------------------------------------------------------
\* Header names (crate::ssdp::protocol).

HEAD_BOOTID == "BOOTID.UPNP.ORG"
HEAD_CACHE_CONTROL == "CACHE-CONTROL"
HEAD_DATE == "DATE"
HEAD_EXT == "EXT"
HEAD_LOCATION == "LOCATION"
HEAD_ST == "ST"
HEAD_USN == "USN"
HEAD_SERVER == "SERVER"
HEAD_HOST == "HOST"
HEAD_MAN == "MAN"
HEAD_MX == "MX"
HEAD_USER_AGENT == "USER-AGENT"
HEAD_CP_FN == "CPFN.UPNP.ORG"
HEAD_TCP_PORT == "TCPPORT.UPNP.ORG"
MULTICAST_ADDRESS == "239.255.255.250:1900"
HTTP_EXTENSION == "\"ssdp:discover\""

REQUIRED_HEADERS ==
    <<HEAD_BOOTID, HEAD_CACHE_CONTROL, HEAD_DATE, HEAD_EXT, HEAD_LOCATION,
      HEAD_ST, HEAD_USN>>

Range(seq) == {seq[i] : i \in 1..Len(seq)}

\* REQUIRED_HEADERS.contains(k)
IsRequired(k) == k \in Range(REQUIRED_HEADERS)

----------------------------------------------------------------------------
\* Text helpers: a string is a sequence of characters.

Digits == <<"0", "1", "2", "3", "4", "5", "6", "7", "8", "9">>
CharAt(s, i) == SubSeq(s, i, i)
IsDigit(c) == c \in Range(Digits)
DigitValue(c) == (CHOOSE i \in 1..10 : Digits[i] = c) - 1

\* format!("{}", n) of an unsigned integer.
RECURSIVE ToDecimal(_)
ToDecimal(n) == IF n < 10 THEN Digits[n + 1]
                ELSE ToDecimal(n \div 10) \o Digits[(n % 10) + 1]

\* str::parse::<u64> of a string of digits (the lengths used here are far
\* below the 20 digits at which u64 overflows).
RECURSIVE DecimalValue(_)
DecimalValue(s) ==
    IF Len(s) = 0 THEN 0
    ELSE 10 * DecimalValue(SubSeq(s, 1, Len(s) - 1)) + DigitValue(CharAt(s, Len(s)))

AllDigits(s) == Len(s) > 0 /\ \A i \in 1..Len(s) : IsDigit(CharAt(s, i))

\* The first position at or after i that holds no space.
RECURSIVE SkipSpaces(_, _)
SkipSpaces(s, i) ==
    IF i <= Len(s) /\ CharAt(s, i) = " " THEN SkipSpaces(s, i + 1) ELSE i

\* The end of the longest run of digits that starts at i (i - 1 when none).
RECURSIVE DigitsEnd(_, _)
DigitsEnd(s, i) ==
    IF i <= Len(s) /\ IsDigit(CharAt(s, i)) THEN DigitsEnd(s, i + 1) ELSE i - 1

\* Regex max-age[ ]*=[ ]*(\d+) tried at position i: the captured digits, or
\* "" when it does not match there.
MaxAgeAt(s, i) ==
    LET e == i + 6
        q == SkipSpaces(s, e + 1)
        d == SkipSpaces(s, q + 1)
    IN  IF /\ e <= Len(s)
           /\ SubSeq(s, i, e) = "max-age"
           /\ q <= Len(s)
           /\ CharAt(s, q) = "="
           /\ DigitsEnd(s, d) >= d
        THEN SubSeq(s, d, DigitsEnd(s, d))
        ELSE ""

\* The leftmost match of the regex in s (an unanchored search).
MaxAgeCapture(s) ==
    LET hits == {i \in 1..Len(s) : MaxAgeAt(s, i) # ""}
    IN  IF hits = {} THEN ""
        ELSE MaxAgeAt(s, CHOOSE i \in hits : \A j \in hits : i <= j)

----------------------------------------------------------------------------
\* crate::utils::headers, the checks the conversion calls.

Present(h) == DOMAIN h

\* check_required: the first required header that is missing is an error.
check_required(h, required) ==
    LET missing == {i \in 1..Len(required) : required[i] \notin Present(h)}
    IN  IF missing = {} THEN Ok("unit")
        ELSE ErrField("MissingRequiredField",
                      required[CHOOSE i \in missing : \A j \in missing : i <= j])

check_empty(v, name) ==
    IF v = "" THEN Ok("unit") ELSE ErrField("InvalidFieldValue", name)

check_not_empty(v, name) ==
    IF v # "" THEN Ok(v) ELSE ErrField("InvalidFieldValue", name)

check_parsed_value(v, name) ==
    IF AllDigits(v) THEN Ok(DecimalValue(v)) ELSE ErrField("InvalidFieldValue", name)

check_max_age(v, name) ==
    IF MaxAgeCapture(v) # "" THEN Ok(MaxAgeCapture(v))
    ELSE ErrField("InvalidFieldValue", name)

\* response.headers.get(name).unwrap()
CanUnwrap(h, name) == name \in Present(h)

----------------------------------------------------------------------------
\* impl TryFrom<MulticastResponse> for Response.

\* The filter of remaining_headers: the entries whose key passes the test.
KeepHeader(k) == IsRequired(k)

remaining_headers(h) ==
    LET kept == {k \in Present(h) : KeepHeader(k)}
    IN  [k \in kept |-> h[k]]

\* The fields are evaluated in the order the struct literal writes them;
\* the first error returns (the ? operator), a missing header at an unwrap
\* panics.
try_from(h) ==
    IF check_required(h, REQUIRED_HEADERS).tag # "Ok"
    THEN check_required(h, REQUIRED_HEADERS)
    ELSE IF check_empty(h[HEAD_EXT], HEAD_EXT).tag # "Ok"
    THEN check_empty(h[HEAD_EXT], HEAD_EXT)
    ELSE
    LET boot == check_parsed_value(h[HEAD_BOOTID], HEAD_BOOTID)
        capt == check_max_age(h[HEAD_CACHE_CONTROL], HEAD_CACHE_CONTROL)
        age  == check_parsed_value(capt.val, HEAD_CACHE_CONTROL)
        date == check_not_empty(h[HEAD_DATE], HEAD_DATE)
        srv  == check_not_empty(h[HEAD_SERVER], HEAD_SERVER)
        loc  == check_not_empty(h[HEAD_LOCATION], HEAD_LOCATION)
        usn  == check_not_empty(h[HEAD_USN], HEAD_USN)
    IN  IF boot.tag # "Ok" THEN boot
        ELSE IF capt.tag # "Ok" THEN capt
        ELSE IF age.tag # "Ok" THEN age
        ELSE IF date.tag # "Ok" THEN date
        ELSE IF ~CanUnwrap(h, HEAD_SERVER) THEN Panic
        ELSE IF srv.tag # "Ok" THEN srv
        ELSE IF loc.tag # "Ok" THEN loc
        ELSE IF usn.tag # "Ok" THEN usn
        ELSE Ok([max_age |-> age.val,
                 date |-> date.val,
                 server |-> srv.val,
                 location |-> loc.val,
                 search_target |-> SearchTargetAll,
                 service_name |-> usn.val,
                 boot_id |-> boot.val,
                 other_headers |-> remaining_headers(h)])

\* The raw responses the transport delivers.
Headers(pairs) ==
    [k \in {p[1] : p \in pairs} |-> (CHOOSE p \in pairs : p[1] = k)[2]]

Without(h, name) == [k \in Present(h) \ {name} |-> h[k]]
With(h, name, v) == [k \in Present(h) \cup {name} |-> IF k = name THEN v ELSE h[k]]

GoodResponse ==
    Headers({<<HEAD_BOOTID, "1">>, <<HEAD_CACHE_CONTROL, "max-age=1800">>,
             <<HEAD_DATE, "Mon">>, <<HEAD_EXT, "">>,
             <<HEAD_LOCATION, "http://a/d.xml">>, <<HEAD_ST, "upnp:rootdevice">>,
             <<HEAD_USN, "A">>, <<HEAD_SERVER, "srv">>, <<"X-OTHER", "x">>})

RawResponses ==
    {GoodResponse,
     With(With(GoodResponse, HEAD_USN, "B"), HEAD_CACHE_CONTROL, "public, max-age = 2"),
     Without(GoodResponse, HEAD_SERVER),
     Without(GoodResponse, HEAD_USN),
     With(GoodResponse, HEAD_EXT, "x"),
     With(GoodResponse, HEAD_CACHE_CONTROL, "no-cache")}

\* The batches multicast returns: sequences of at most MaxBatch raw responses.
RECURSIVE SeqsUpTo(_, _)
SeqsUpTo(S, n) ==
    IF n = 0 THEN {<<>>}
    ELSE SeqsUpTo(S, n - 1)
         \cup {Append(q, x) : q \in {p \in SeqsUpTo(S, n - 1) : Len(p) = n - 1}, x \in S}

Batches == SeqsUpTo(RawResponses, MaxBatch)

----------------------------------------------------------------------------
\* Request construction.

Header(name, value) == <<name, value>>

\* crate::utils::user_agent::make (an external formatter).
user_agent_make(v, pav) ==
    "UPnP/" \o ToDecimal(v \div 10) \o "." \o ToDecimal(v % 10)
    \o (IF pav.some THEN " " \o pav.v ELSE "")

\* The headers search_once adds, in order; the V20 branch without a control
\* point returns MissingRequiredField instead.
search_once_headers(o) ==
    LET base == <<Header(HEAD_HOST, MULTICAST_ADDRESS),
                  Header(HEAD_MAN, HTTP_EXTENSION),
                  Header(HEAD_MX, ToDecimal(o.max_wait_time)),
                  Header(HEAD_ST, to_string(o.search_target))>>
        ua == IF o.spec_version >= V11
              THEN <<Header(HEAD_USER_AGENT,
                            user_agent_make(o.spec_version, o.product_and_version))>>
              ELSE <<>>
        cp == o.control_point.v
        v20 == IF o.spec_version >= V20
               THEN <<Header(HEAD_CP_FN, cp.friendly_name)>>
                    \o (IF cp.port.some
                        THEN <<Header(HEAD_TCP_PORT, ToDecimal(cp.port.v))>> ELSE <<>>)
                    \o (IF cp.uuid.some
                        THEN <<Header(HEAD_TCP_PORT, cp.uuid.v)>> ELSE <<>>)
               ELSE <<>>
    IN  IF o.spec_version >= V20 /\ ~o.control_point.some
        THEN Err("MissingRequiredField")
        ELSE Ok(base \o ua \o v20)

\* The headers search_once_to_device adds (no MX, always a user agent).
search_once_to_device_headers(o) ==
    Ok(<<Header(HEAD_HOST, MULTICAST_ADDRESS),
         Header(HEAD_MAN, HTTP_EXTENSION),
         Header(HEAD_ST, to_string(o.search_target)),
         Header(HEAD_USER_AGENT,
                user_agent_make(o.spec_version, o.product_and_version))>>)

----------------------------------------------------------------------------
\* The three public functions, up to the point where the request is built.
\* Each yields either the value the function returns at once or Proceed.

Proceed == [tag |-> "Proceed"]

\* search: validate, then an unconditional error.
search_entry(o) ==
    IF validate(o).tag # "Ok" THEN validate(o) ELSE Err("VersionMismatch")

\* search_once without its validate call: the request is built whatever
\* the options are.
search_once_entry_unvalidated(o) == Proceed

\* search_once: options.validate()? and on to the message builder.
search_once_entry(o) ==
    IF validate(o).tag # "Ok" THEN validate(o) ELSE Proceed

\* search_once_to_device: options.validate()?, then the version test.
search_once_to_device_entry(o) ==
    IF validate(o).tag # "Ok" THEN validate(o)
    ELSE IF o.spec_version >= V11 THEN Proceed
    ELSE Err("Unsupported")

Functions == {"validate", "search", "search_once", "search_once_to_device"}

Entry(f, o) ==
    CASE f = "validate" -> validate(o)
      [] f = "search" -> search_entry(o)
      [] f = "search_once" -> search_once_entry(o)
      [] f = "search_once_to_device" -> search_once_to_device_entry(o)

BuildHeaders(f, o) ==
    IF f = "search_once" THEN search_once_headers(o)
    ELSE search_once_to_device_headers(o)

\* One turn of `for raw_response in raw_responses`: the conversion's value
\* is pushed, its error returned (the ? operator), its panic unwinds.
LoopStep(acc, r) ==
    IF try_from(r).tag = "Ok"
    THEN [continue |-> TRUE, responses |-> Append(acc, try_from(r).val),
          result |-> NoResult]
    ELSE [continue |-> FALSE, responses |-> acc, result |-> try_from(r)]

----------------------------------------------------------------------------
\* The state machine of one caller making search calls.

EmptyCache ==
    [options |-> OptionsDefault, minimum_refresh |-> 0, last_updated |-> 0,
     responses |-> <<>>]

InitSearch ==
    /\ pc = "idle"
    /\ call = "none"
    /\ opts = OptionsDefault
    /\ validated = FALSE
    /\ headers = <<>>
    /\ sends = 0
    /\ raw = <<>>
    /\ responses = <<>>
    /\ parsed = <<>>
    /\ result = NoResult

Init ==
    /\ InitSearch
    /\ cache = EmptyCache
    /\ now = 0
    /\ network = [up |-> TRUE, batch |-> <<>>]
    /\ cacheOp = [op |-> "none", at |-> 0, before |-> EmptyCache]

\* The caller calls Options::validate or one of the three search functions.
Call ==
    /\ pc = "idle"
    /\ \E f \in Functions, o \in OptionsSet :
          /\ call' = f
          /\ opts' = o
    /\ pc' = "entry"
    /\ validated' = FALSE
    /\ headers' = <<>>
    /\ sends' = 0
    /\ raw' = <<>>
    /\ responses' = <<>>
    /\ parsed' = <<>>
    /\ result' = NoResult
    /\ UNCHANGED cacheVars

\* options.validate()? and what follows it before the message builder.
Validate ==
    /\ pc = "entry"
    /\ validated' = TRUE
    /\ IF Entry(call, opts).tag = "Proceed"
       THEN pc' = "build" /\ result' = result
       ELSE pc' = "done" /\ result' = Entry(call, opts)
    /\ UNCHANGED <<call, opts, headers, sends, raw, responses, parsed>>
    /\ UNCHANGED cacheVars

\* RequestBuilder::new and the add_header calls.
Build ==
    /\ pc = "build"
    /\ IF BuildHeaders(call, opts).tag = "Ok"
       THEN /\ headers' = BuildHeaders(call, opts).val
            /\ pc' = "send"
            /\ result' = result
       ELSE /\ headers' = headers
            /\ pc' = "done"
            /\ result' = BuildHeaders(call, opts)
    /\ UNCHANGED <<call, opts, validated, sends, raw, responses, parsed>>
    /\ UNCHANGED cacheVars

\* multicast(...)?: the transport returns a batch of raw responses.
SendOk ==
    /\ pc = "send"
    /\ sends' = sends + 1
    /\ \E batch \in Batches : raw' = batch
    /\ pc' = "loop"
    /\ UNCHANGED <<call, opts, validated, headers, responses, parsed, result>>
    /\ UNCHANGED cacheVars

\* multicast(...)?: the transport fails and the error is returned.
SendFails ==
    /\ pc = "send"
    /\ sends' = sends + 1
    /\ pc' = "done"
    /\ result' = Err("Transport")
    /\ UNCHANGED <<call, opts, validated, headers, raw, responses, parsed>>
    /\ UNCHANGED cacheVars

\* One turn of the conversion loop.
Convert ==
    /\ pc = "loop"
    /\ raw # <<>>
    /\ LET step == LoopStep(responses, Head(raw))
       IN  /\ responses' = step.responses
           /\ parsed' = Append(parsed, [raw |-> Head(raw), out |-> try_from(Head(raw))])
           /\ raw' = Tail(raw)
           /\ result' = step.result
           /\ pc' = IF step.continue THEN "loop" ELSE "done"
    /\ UNCHANGED <<call, opts, validated, headers, sends>>
    /\ UNCHANGED cacheVars

\* The loop is over: Ok(responses).
Finish ==
    /\ pc = "loop"
    /\ raw = <<>>
    /\ result' = Ok(responses)
    /\ pc' = "done"
    /\ UNCHANGED <<call, opts, validated, headers, sends, raw, responses, parsed>>
    /\ UNCHANGED cacheVars

\* The caller has taken the returned value; the call's locals are dropped.
Return ==
    /\ pc = "done"
    /\ pc' = "idle"
    /\ call' = "none"
    /\ opts' = OptionsDefault
    /\ validated' = FALSE
    /\ headers' = <<>>
    /\ sends' = 0
    /\ raw' = <<>>
    /\ responses' = <<>>
    /\ parsed' = <<>>
    /\ result' = NoResult
    /\ UNCHANGED cacheVars

Next ==
    \/ Call
    \/ Validate
    \/ Build
    \/ SendOk
    \/ SendFails
    \/ Convert
    \/ Finish
    \/ Return

Spec == Init /\ [][Next]_vars

----------------------------------------------------------------------------
\* ResponseCache and its methods.

CachedResponse(r, e) == [response |-> r, expiration |-> e]

ResponseCache(o, m, u, rs) ==
    [options |-> o, minimum_refresh |-> m, last_updated |-> u, responses |-> rs]

\* ResponseCache::refresh: a copy of the receiver, which is left as it is.
refresh(c) == [self |-> c, returned |-> c, round_trips |-> 0]

\* ResponseCache::last_updated.
last_updated(c) == c.last_updated

\* ResponseCache::responses: a new, empty vector.
cache_responses(c) == <<>>

\* The key the merge identifies an advertisement by.
Key(r) == <<r.search_target, r.service_name>>

\* The receivers the methods are called on: caches of at most MaxCache
\* entries, one per key, whose options pass validate or not.
CacheResponseSet == {try_from(r).val : r \in {q \in RawResponses : try_from(q).tag = "Ok"}}
CacheEntries == {CachedResponse(r, e) : r \in CacheResponseSet, e \in 0..MaxTime}
DistinctKeys(rs) ==
    \A i, j \in 1..Len(rs) : Key(rs[i].response) = Key(rs[j].response) => i = j
CacheOptions == {OptionsDefault, Options(V10, RootDevices, 0, None, None)}
RefreshIntervals == {1, 2}
Caches ==
    {ResponseCache(o, m, 0, rs) :
        o \in CacheOptions, m \in RefreshIntervals,
        rs \in {q \in SeqsUpTo(CacheEntries, MaxCache) : DistinctKeys(q)}}

\* What the transport would answer to a search: nothing (it fails), or one
\* of the batches of well-formed raw responses.
Networks ==
    {[up |-> FALSE, batch |-> <<>>]}
    \cup {[up |-> TRUE, batch |-> b] :
            b \in SeqsUpTo({q \in RawResponses : try_from(q).tag = "Ok"}, 1)}

CacheOp(op, at, before) == [op |-> op, at |-> at, before |-> before]

CacheInit ==
    /\ InitSearch
    /\ cache \in Caches
    /\ now = 0
    /\ network \in Networks
    /\ cacheOp = CacheOp("none", 0, cache)

\* A second passes.
Tick ==
    /\ now < MaxTime
    /\ now' = now + 1
    /\ UNCHANGED <<cache, network, cacheOp, result>>
    /\ UNCHANGED searchVars

\* The caller calls cache.refresh().
Refresh ==
    /\ cache' = refresh(cache).self
    /\ result' = Ok(refresh(cache).returned)
    /\ sends' = sends + refresh(cache).round_trips
    /\ cacheOp' = CacheOp("refresh", now, cache)
    /\ UNCHANGED <<now, network>>
    /\ UNCHANGED <<pc, call, opts, validated, headers, raw, responses, parsed>>

\* The caller calls cache.responses().
Responses ==
    /\ result' = Ok(cache_responses(cache))
    /\ cacheOp' = CacheOp("responses", now, cache)
    /\ UNCHANGED <<cache, now, network>>
    /\ UNCHANGED searchVars

\* The caller calls cache.last_updated() (on a copy: the method takes self).
LastUpdated ==
    /\ result' = Ok(last_updated(cache))
    /\ cacheOp' = CacheOp("last_updated", now, cache)
    /\ UNCHANGED <<cache, now, network>>
    /\ UNCHANGED searchVars

CacheNext ==
    \/ Tick
    \/ Refresh
    \/ Responses
    \/ LastUpdated

CacheSpec == CacheInit /\ [][CacheNext]_vars

----------------------------------------------------------------------------
\* Properties of the search functions.

\* The batch the transport returned to this call.
Batch == [i \in 1..Len(parsed) |-> parsed[i].raw] \o raw

\* The responses of a batch that convert, in order.
RECURSIVE Converted(_)
Converted(b) ==
    IF b = <<>> THEN <<>>
    ELSE (IF try_from(Head(b)).tag = "Ok" THEN <<try_from(Head(b)).val>> ELSE <<>>)
         \o Converted(Tail(b))

\* C1: search(options) with options that pass validate returns a
\* ResponseCache that stores those options, one entry per converted response.
C1_SearchReturnsCache ==
    (pc = "done" /\ call = "search" /\ validate(opts).tag = "Ok")
        => /\ result.tag = "Ok"
           /\ result.val.options = opts
           /\ Len(result.val.responses) = Len(Converted(Batch))

\* C6: in search, search_once and search_once_to_device no header is built
\* and nothing is sent unless validate has run and passed; a call whose
\* options fail validation returns that error having sent nothing; a unicast
\* search below V11 returns Unsupported having sent nothing.
C6_EagerValidation ==
    /\ (headers # <<>> \/ sends > 0) => (validated /\ validate(opts).tag = "Ok")
    /\ (pc = "done" /\ call # "validate" /\ validate(opts).tag # "Ok")
          => (result = validate(opts) /\ sends = 0 /\ headers = <<>>)
    /\ (/\ pc = "done"
        /\ call = "search_once_to_device"
        /\ validate(opts).tag = "Ok"
        /\ opts.spec_version < V11)
          => (result = Err("Unsupported") /\ sends = 0 /\ headers = <<>>)

\* C6 witness: search_once was called with options that fail validation and
\* has returned the validation error.
C6_Witness ==
    /\ pc = "done"
    /\ call = "search_once"
    /\ validate(opts).tag = "Err"
    /\ result = Err("InvalidFieldValue")
    /\ sends = 0

\* C7: when the transport returned a batch, search_once and
\* search_once_to_device return Ok with every response of the batch that
\* converts, whatever the other responses are (stated for the batches whose
\* malformed responses give conversion errors).
C7_BatchIsolation ==
    (/\ pc = "done"
     /\ sends = 1
     /\ result # Err("Transport")
     /\ \A r \in Range(Batch) : try_from(r).tag # "Panic")
        => (result.tag = "Ok" /\ result.val = Converted(Batch))

\* The ProductName/Version pattern: a name, a slash, a version.  The empty
\* string is let through, as a permissive validator is allowed to.
MatchesProductVersion(s) ==
    \/ s = ""
    \/ \E i \in 2..(Len(s) - 1) : CharAt(s, i) = "/"

ValidationRules(o) ==
    /\ o.max_wait_time >= 1 /\ o.max_wait_time <= 120
    /\ (o.spec_version >= V11 /\ o.product_and_version.some)
          => MatchesProductVersion(o.product_and_version.v)
    /\ o.spec_version >= V20
          => (o.control_point.some /\ o.control_point.v.friendly_name # "")

\* C8: validate returns Ok exactly when the three rules hold, and
\* InvalidFieldValue otherwise.
C8_ValidateRules ==
    (pc = "done" /\ call = "validate")
        => /\ (result.tag = "Ok") <=> ValidationRules(opts)
           /\ ~ValidationRules(opts) => result = Err("InvalidFieldValue")

\* The headers the conversion reads.
ReadHeaders == Range(REQUIRED_HEADERS) \cup {HEAD_SERVER}

\* C9: every conversion ends with a Response or an error, never a panic; a
\* raw response that lacks one of the headers the conversion reads gives an
\* error, and a non-empty EXT gives InvalidFieldValue.
C9_ParseTotal ==
    \A i \in 1..Len(parsed) :
        LET r == parsed[i].raw
            out == parsed[i].out
        IN  /\ out.tag \in {"Ok", "Err"}
            /\ (ReadHeaders \ DOMAIN r # {}) => out.tag = "Err"
            /\ (ReadHeaders \subseteq DOMAIN r /\ r[HEAD_EXT] # "")
                  => out = ErrField("InvalidFieldValue", HEAD_EXT)

\* C10: other_headers of a converted response holds exactly the raw
\* response's headers that are not in the required set, values unchanged.
C10_OtherHeaders ==
    \A i \in 1..Len(parsed) :
        LET r == parsed[i].raw
            out == parsed[i].out
        IN  out.tag = "Ok"
              => out.val.other_headers
                     = [k \in (DOMAIN r) \ Range(REQUIRED_HEADERS) |-> r[k]]

----------------------------------------------------------------------------
\* Properties of the ResponseCache methods.

\* The method `op` has just returned (the clock has not moved since).
JustDid(op) == cacheOp.op = op /\ cacheOp.at = now

\* The entries of rs that have not expired at time t.
Live(rs, t) == SelectSeq(rs, LAMBDA e : e.expiration >= t)

\* The refresh just made was not throttled, and its search would succeed.
IntervalElapsed == cacheOp.at - cacheOp.before.last_updated >= cacheOp.before.minimum_refresh
SearchSucceeds == validate(cacheOp.before.options).tag = "Ok" /\ network.up

EntriesFor(rs, k) == {i \in 1..Len(rs) : Key(rs[i].response) = k}

\* C2: after a refresh whose search returned responses the cache holds one
\* entry per key; every returned response has exactly one entry, expiring
\* max_age after the refresh; live entries with other keys are kept.
C2_CacheMerge ==
    /\ DistinctKeys(cache.responses)
    /\ (JustDid("refresh") /\ IntervalElapsed /\ SearchSucceeds)
          => /\ \A r \in Range(Converted(network.batch)) :
                   /\ Cardinality(EntriesFor(cache.responses, Key(r))) = 1
                   /\ \A i \in EntriesFor(cache.responses, Key(r)) :
                         cache.responses[i].expiration = now + r.max_age
             /\ \A e \in Range(Live(cacheOp.before.responses, now)) :
                   (\A r \in Range(Converted(network.batch)) : Key(r) # Key(e.response))
                      => e \in Range(cache.responses)

\* C3: responses() returns the entries that have not expired and no others,
\* and the cache a refresh returns holds no expired entry.
C3_CachePruning ==
    /\ JustDid("responses")
          => Range(result.val)
                = {e.response : e \in Range(Live(cacheOp.before.responses, now))}
    /\ JustDid("refresh")
          => \A e \in Range(result.val.responses) : e.expiration >= now

\* C4: a refresh whose search fails (invalid stored options, or a transport
\* error) leaves the live entries as they were and returns the error.
C4_CacheFailure ==
    (JustDid("refresh") /\ IntervalElapsed /\ ~SearchSucceeds)
        => /\ Live(cache.responses, now) = Live(cacheOp.before.responses, now)
           /\ result.tag = "Err"

\* C5: a refresh made before minimum_refresh seconds have passed returns the
\* cache as it is without a round trip; one made after issues a search and
\* sets last_updated to the time of the operation.
C5_MinimumRefresh ==
    /\ (JustDid("refresh") /\ ~IntervalElapsed)
          => (cache = cacheOp.before /\ result = Ok(cache))
    /\ (JustDid("refresh") /\ IntervalElapsed /\ SearchSucceeds)
          => (sends >= 1 /\ cache.last_updated = now)

====
